---- MODULE Spec2Model ----
(***************************************************************************)
(* Grover's algorithm demo (grover_interactive.py).                        *)
(*                                                                         *)
(* run_grovers_algorithm builds a gate list (QuantumCircuit), then the     *)
(* simulator runs the list on the state vector |0..0> and draws 1024       *)
(* shots from the final distribution.                                      *)
(*                                                                         *)
(* Amplitudes are real here (H, X and MCX have real matrices).  The        *)
(* amplitude of basis state i is  amp[i] / (sqrt 2)^hexp  with amp[i] an   *)
(* integer, so all arithmetic is exact: a Hadamard adds/subtracts the two  *)
(* amplitudes of a pair and raises hexp by one.  The pair (amp, hexp) is   *)
(* kept in lowest terms (Canon), which makes the representation of a       *)
(* vector unique.                                                          *)
(***************************************************************************)
EXTENDS Integers, Sequences, FiniteSets, TLC

VARIABLES
    n_qubits,      \* argument n_qubits of run_grovers_algorithm
    target_state,  \* argument target_state: a sequence of characters
    iterations,    \* argument iterations
    pc,            \* the statement run_grovers_algorithm executes next
    k,             \* completed passes of the loop `for _ in range(iterations)`
    qc,            \* the circuit: the sequence of gates appended so far
    err,           \* the exception that ended the run, or "none"
    ip,            \* simulator: position in qc of the next gate to run
    amp,           \* simulator: integer numerators of the amplitudes
    hexp,          \* simulator: amplitudes are amp[i] / (sqrt 2)^hexp
    shots_left,    \* sampler: shots still to draw
    counts,        \* sampler: outcome string -> number of shots
    trace,         \* history: the stages the run went through
    marks,         \* history: which positions of qc each oracle/diffusion call wrote
    pre,           \* history: amp when the current gate block started
    prehexp        \* history: hexp when the current gate block started

vars == <<n_qubits, target_state, iterations, pc, k, qc, err, ip, amp, hexp,
          shots_left, counts, trace, marks, pre, prehexp>>

----------------------------------------------------------------------------
(* Program constants and model bounds *)

QubitOptions == {2, 3}

MinIterations == 1

MaxIterations == 4

Shots == 1024

\* The sampler's 1024 draws are taken in batches of (at most) ShotBatch draws
\* that land on the same outcome.
ShotBatch == 256

\* Longest target string a direct caller passes (SpecCall).
MaxTargetLen == 4

----------------------------------------------------------------------------
(* Integer helpers *)

RECURSIVE Pow2(_)
Pow2(e) == IF e = 0 THEN 1 ELSE 2 * Pow2(e - 1)

Min(a, b) == IF a < b THEN a ELSE b

\* bit q of the basis-state index i (qubit q of basis state i)
Bit(i, q) == (i \div Pow2(q)) % 2

\* the index that differs from i in bit q only
Flip(i, q) == IF Bit(i, q) = 0 THEN i + Pow2(q) ELSE i - Pow2(q)

Indices(n) == 0 .. (Pow2(n) - 1)

RECURSIVE SumUpTo(_, _)
SumUpTo(f, last) == IF last < 0 THEN 0 ELSE f[last] + SumUpTo(f, last - 1)

\* sum of the entries of a vector over 0..2^n-1
SumAmp(a, n) == SumUpTo(a, Pow2(n) - 1)

\* sum of the squares of the entries
SumSq(a, n) == SumUpTo([i \in Indices(n) |-> a[i] * a[i]], Pow2(n) - 1)

----------------------------------------------------------------------------
(* Strings: format(i, '0nb'), s[::-1], int(bit) *)

Digit(b) == IF b = 1 THEN "1" ELSE "0"

\* bin(i) without prefix: most significant digit first, no leading zeros
RECURSIVE Bin(_)
Bin(i) == IF i < 2 THEN <<Digit(i)>> ELSE Bin(i \div 2) \o <<Digit(i % 2)>>

RECURSIVE ZeroPad(_, _)
ZeroPad(s, w) == IF Len(s) >= w THEN s ELSE ZeroPad(<<"0">> \o s, w)

\* format(i, f'0{w}b')
Format(i, w) == ZeroPad(Bin(i), w)

\* get_possible_states(n_qubits): the list of the 2^n strings
get_possible_states(n) == [j \in 1 .. Pow2(n) |-> Format(j - 1, n)]

\* target_state[::-1]
Reverse(s) == [j \in 1 .. Len(s) |-> s[Len(s) + 1 - j]]

\* int(bit) for bit in '0', '1'
IntOfChar(c) == IF c = "1" THEN 1 ELSE 0

\* bug: the string is not reversed, so character j goes to qubit j-1
TargetBits_NoReverse(t) == [j \in 1 .. Len(t) |-> IntOfChar(t[j])]

\* [int(bit) for bit in target_state[::-1]]; entry j is enumerate index j-1
TargetBits(t) == [j \in 1 .. Len(t) |-> IntOfChar(Reverse(t)[j])]

----------------------------------------------------------------------------
(* Gates *)

HGate(q) == [op |-> "h", q |-> q, ctl |-> {}]

XGate(q) == [op |-> "x", q |-> q, ctl |-> {}]

MCXGate(ctl, q) == [op |-> "mcx", q |-> q, ctl |-> ctl]

MeasureGate == [op |-> "measure", q |-> 0, ctl |-> {}]

\* qc.h(range(n)) / qc.x(range(n)): one gate per qubit, qubit 0 first
HLayer(n) == [j \in 1 .. n |-> HGate(j - 1)]

XLayer(n) == [j \in 1 .. n |-> XGate(j - 1)]

\* bug: the Hadamards that turn the MCX into a phase flip are left out
MCZGates_NoH(n) == <<MCXGate(0 .. (n - 2), n - 1)>>

\* H on the last qubit, MCX from all the others onto it, H on the last qubit
MCZGates(n) == <<HGate(n - 1), MCXGate(0 .. (n - 2), n - 1), HGate(n - 1)>>

\* for i, bit in enumerate(target_bits): if bit == 0: qc.x(i)
\* from enumerate position j on, stopping where qc.x(i) raises (i >= n)
RECURSIVE OracleXGates(_, _, _)
OracleXGates(bits, j, n) ==
    IF j > Len(bits) THEN <<>>
    ELSE IF bits[j] = 0
         THEN (IF j - 1 >= n THEN <<>>
               ELSE <<XGate(j - 1)>> \o OracleXGates(bits, j + 1, n))
         ELSE OracleXGates(bits, j + 1, n)

\* qc.x(i) raises CircuitError when i is no qubit of the circuit
OracleRaises(n, t) ==
    \E j \in 1 .. Len(t) : TargetBits(t)[j] = 0 /\ j - 1 >= n

\* bug: the X gates are not applied again after the phase flip
OracleGates_NoUndo(n, t) ==
    OracleXGates(TargetBits(t), 1, n) \o MCZGates(n)

\* the gates apply_oracle appends when it returns normally
OracleGates(n, t) ==
    OracleXGates(TargetBits(t), 1, n) \o MCZGates(n) \o OracleXGates(TargetBits(t), 1, n)

\* bug: the X layers around the phase flip are left out
DiffusionGates_NoXLayers(n) == HLayer(n) \o MCZGates(n) \o HLayer(n)

\* bug: the closing Hadamard layer is left out
DiffusionGates_NoFinalH(n) == HLayer(n) \o XLayer(n) \o MCZGates(n) \o XLayer(n)

\* the gates apply_diffusion appends
DiffusionGates(n) ==
    HLayer(n) \o XLayer(n) \o MCZGates(n) \o XLayer(n) \o HLayer(n)

----------------------------------------------------------------------------
(* Simulator: the state vector *)

Ket0(n) == [i \in Indices(n) |-> IF i = 0 THEN 1 ELSE 0]

\* lowest terms: amp / (sqrt 2)^hexp = (amp / 2) / (sqrt 2)^(hexp - 2)
RECURSIVE Canon(_, _)
Canon(a, h) ==
    IF h >= 2 /\ \A i \in DOMAIN a : a[i] % 2 = 0
    THEN Canon([i \in DOMAIN a |-> a[i] \div 2], h - 2)
    ELSE [amp |-> a, hexp |-> h]

\* bug: the second amplitude of a pair gets the sum as well
ApplyH_NoMinus(a, h, q) ==
    Canon([i \in DOMAIN a |-> a[i] + a[Flip(i, q)]], h + 1)

\* H on qubit q: (a, b) -> ((a + b) / sqrt 2, (a - b) / sqrt 2)
ApplyH(a, h, q) ==
    Canon([i \in DOMAIN a |->
              IF Bit(i, q) = 0 THEN a[i] + a[Flip(i, q)]
                               ELSE a[Flip(i, q)] - a[i]],
          h + 1)

\* X on qubit q: swap the two amplitudes of every pair
ApplyX(a, h, q) == [amp |-> [i \in DOMAIN a |-> a[Flip(i, q)]], hexp |-> h]

\* MCX: swap the pair on qubit q where every control bit is 1
ApplyMCX(a, h, ctl, q) ==
    [amp |-> [i \in DOMAIN a |->
                 IF \A c \in ctl : Bit(i, c) = 1 THEN a[Flip(i, q)] ELSE a[i]],
     hexp |-> h]

ApplyGate(a, h, g) ==
    CASE g.op = "h" -> ApplyH(a, h, g.q)
      [] g.op = "x" -> ApplyX(a, h, g.q)
      [] g.op = "mcx" -> ApplyMCX(a, h, g.ctl, g.q)
      [] OTHER -> [amp |-> a, hexp |-> h]

\* the outcomes a shot can give: those of nonzero probability
Support(a) == {i \in DOMAIN a : a[i] # 0}

\* key of outcome i in the counts: classical bit j holds qubit j, bit n-1 leftmost
CountsKey(i, n) == [j \in 1 .. n |-> Digit(Bit(i, n - j))]

\* bug: a key's count is overwritten, not added to
AddCounts_Overwrite(c, key, d) ==
    [x \in DOMAIN c \cup {key} |-> IF x = key THEN d ELSE c[x]]

\* counts with d more shots on key
AddCounts(c, key, d) ==
    [x \in DOMAIN c \cup {key} |-> (IF x \in DOMAIN c THEN c[x] ELSE 0)
                                    + (IF x = key THEN d ELSE 0)]

DrawSize(left) == Min(ShotBatch, left)

NoCounts == [x \in {} |-> 0]

----------------------------------------------------------------------------
(* run_grovers_algorithm *)

\* bug: the loop stops one pass early
LoopNext_OffByOne(done, iters) == IF done + 1 < iters THEN "oracle" ELSE "measure"

\* `for _ in range(iterations)`: another pass, or on to measure_all
LoopNext(done, iters) == IF done < iters THEN "oracle" ELSE "measure"

\* what the first statement leaves: an empty circuit, nothing simulated yet
Start ==
    /\ pc = "superpose"
    /\ k = 0
    /\ qc = <<>>
    /\ err = "none"
    /\ ip = 1
    /\ amp = Ket0(n_qubits)
    /\ hexp = 0
    /\ shots_left = Shots
    /\ counts = NoCounts
    /\ trace = <<"Uninitialized">>
    /\ marks = <<>>
    /\ pre = Ket0(n_qubits)
    /\ prehexp = 0

\* the app: both selectboxes and the slider
Init ==
    /\ n_qubits \in QubitOptions
    /\ target_state \in {get_possible_states(n_qubits)[j] : j \in 1 .. Pow2(n_qubits)}
    /\ iterations \in MinIterations .. MaxIterations
    /\ Start

\* qc.h(range(n_qubits))
Superpose ==
    /\ pc = "superpose"
    /\ qc' = qc \o HLayer(n_qubits)
    /\ pc' = LoopNext(0, iterations)
    /\ trace' = Append(trace, "Superposed")
    /\ UNCHANGED <<n_qubits, target_state, iterations, k, err, ip, amp, hexp,
                   shots_left, counts, marks, pre, prehexp>>

\* apply_oracle(qc, n_qubits, target_state)
ApplyOracle ==
    /\ pc = "oracle"
    /\ IF OracleRaises(n_qubits, target_state)
       THEN /\ qc' = qc \o OracleXGates(TargetBits(target_state), 1, n_qubits)
            /\ pc' = "raised"
            /\ err' = "CircuitError"
            /\ UNCHANGED <<trace, marks>>
       ELSE /\ qc' = qc \o OracleGates(n_qubits, target_state)
            /\ pc' = "diffusion"
            /\ err' = err
            /\ trace' = Append(trace, "OracleApplied")
            /\ marks' = Append(marks, [kind |-> "oracle", first |-> Len(qc) + 1,
                                       last |-> Len(qc')])
    /\ UNCHANGED <<n_qubits, target_state, iterations, k, ip, amp, hexp,
                   shots_left, counts, pre, prehexp>>

\* apply_diffusion(qc, n_qubits), and the end of the loop body
ApplyDiffusion ==
    /\ pc = "diffusion"
    /\ qc' = qc \o DiffusionGates(n_qubits)
    /\ k' = k + 1
    /\ pc' = LoopNext(k + 1, iterations)
    /\ trace' = Append(trace, "DiffusedApplied")
    /\ marks' = Append(marks, [kind |-> "diffusion", first |-> Len(qc) + 1,
                               last |-> Len(qc')])
    /\ UNCHANGED <<n_qubits, target_state, iterations, err, ip, amp, hexp,
                   shots_left, counts, pre, prehexp>>

\* qc.measure_all(); the simulator is then started on the circuit
MeasureAll ==
    /\ pc = "measure"
    /\ qc' = Append(qc, MeasureGate)
    /\ pc' = "simulate"
    /\ UNCHANGED <<n_qubits, target_state, iterations, k, err, ip, amp, hexp,
                   shots_left, counts, trace, marks, pre, prehexp>>

BlockStartsAt(pos) == \E j \in 1 .. Len(marks) : marks[j].first = pos

\* simulator.run: the next gate of the circuit acts on the state vector
SimStep ==
    /\ pc = "simulate"
    /\ ip <= Len(qc)
    /\ LET g == qc[ip]
           r == ApplyGate(amp, hexp, g)
       IN /\ amp' = r.amp
          /\ hexp' = r.hexp
          /\ ip' = ip + 1
          /\ pc' = IF g.op = "measure" THEN "sample" ELSE "simulate"
          /\ trace' = IF g.op = "measure" THEN Append(trace, "Measured") ELSE trace
          /\ IF BlockStartsAt(ip)
             THEN pre' = amp /\ prehexp' = hexp
             ELSE UNCHANGED <<pre, prehexp>>
    /\ UNCHANGED <<n_qubits, target_state, iterations, k, qc, err,
                   shots_left, counts, marks>>

\* simulator.run(shots=1024): a batch of shots lands on one outcome
Sample ==
    /\ pc = "sample"
    /\ shots_left > 0
    /\ \E i \in Support(amp) :
          counts' = AddCounts(counts, CountsKey(i, n_qubits), DrawSize(shots_left))
    /\ shots_left' = shots_left - DrawSize(shots_left)
    /\ UNCHANGED <<n_qubits, target_state, iterations, pc, k, qc, err, ip, amp,
                   hexp, trace, marks, pre, prehexp>>

\* counts = result.get_counts(); return qc, counts
GetCounts ==
    /\ pc = "sample"
    /\ shots_left = 0
    /\ pc' = "done"
    /\ UNCHANGED <<n_qubits, target_state, iterations, k, qc, err, ip, amp, hexp,
                   shots_left, counts, trace, marks, pre, prehexp>>

Next ==
    \/ Superpose
    \/ ApplyOracle
    \/ ApplyDiffusion
    \/ MeasureAll
    \/ SimStep
    \/ Sample
    \/ GetCounts

Spec == Init /\ [][Next]_vars

\* the function runs to completion within one call: no step waits
FairSpec == Spec /\ WF_vars(Next)

----------------------------------------------------------------------------
(* A direct call of run_grovers_algorithm: the target is any string of '0'/'1' *)

RECURSIVE BitStrings(_)
BitStrings(len) ==
    IF len = 0 THEN {<<>>}
    ELSE {Append(s, c) : s \in BitStrings(len - 1), c \in {"0", "1"}}

InitCall ==
    /\ n_qubits \in QubitOptions
    /\ target_state \in UNION {BitStrings(len) : len \in 0 .. MaxTargetLen}
    /\ iterations \in MinIterations .. MaxIterations
    /\ Start

SpecCall == InitCall /\ [][Next]_vars

----------------------------------------------------------------------------
(* apply_diffusion called twice in a row on a vector the simulator holds *)

DiffusionTwice ==
    /\ pc = "simulate"
    /\ ip <= Len(qc)
    /\ qc' = DiffusionGates(n_qubits) \o DiffusionGates(n_qubits)
    /\ ip' = 1
    /\ pc' = "diffuse_twice"
    /\ pre' = amp
    /\ prehexp' = hexp
    /\ marks' = <<>>
    /\ UNCHANGED <<n_qubits, target_state, iterations, k, err, amp, hexp,
                   shots_left, counts, trace>>

DiffusionTwiceStep ==
    /\ pc = "diffuse_twice"
    /\ LET r == ApplyGate(amp, hexp, qc[ip])
       IN /\ amp' = r.amp
          /\ hexp' = r.hexp
    /\ ip' = ip + 1
    /\ pc' = IF ip = Len(qc) THEN "diffused_twice" ELSE "diffuse_twice"
    /\ UNCHANGED <<n_qubits, target_state, iterations, k, qc, err,
                   shots_left, counts, trace, marks, pre, prehexp>>

NextProbe ==
    \/ Next
    \/ DiffusionTwice
    \/ DiffusionTwiceStep

SpecProbe == Init /\ [][NextProbe]_vars

----------------------------------------------------------------------------
(* Properties *)

\* a / (sqrt 2)^h = b / (sqrt 2)^g
ScaledEq(a, h, b, g) ==
    IF (h - g) % 2 = 0
    THEN a * Pow2((g - Min(h, g)) \div 2) = b * Pow2((h - Min(h, g)) \div 2)
    ELSE a = 0 /\ b = 0

\* the simulator has just run the last gate of a block of the given kind
BlockJustRan(kind) ==
    /\ pc = "simulate"
    /\ \E j \in 1 .. Len(marks) : marks[j].kind = kind /\ ip = marks[j].last + 1

\* the state vector is final
Simulated == pc \in {"sample", "done"}

\* the basis states whose string, as get_possible_states writes it, is the target
IsTarget(i) == Format(i, n_qubits) = target_state

\* probability of outcome i, compared with num / den
ProbEq(i, num, den) == amp[i] * amp[i] * den = num * Pow2(hexp)

ProbGt(i, num, den) == amp[i] * amp[i] * den > num * Pow2(hexp)

ProbLt(i, num, den) == amp[i] * amp[i] * den < num * Pow2(hexp)

RECURSIVE SumCounts(_, _)
SumCounts(c, keys) ==
    IF keys = {} THEN 0
    ELSE LET x == CHOOSE y \in keys : TRUE
         IN c[x] + SumCounts(c, keys \ {x})

\* C1: when the simulator has run the gates of one apply_oracle call, the
\* amplitude whose index is the target read as a binary numeral is negated
\* and every other amplitude is unchanged.
C1_OracleNegatesTarget ==
    BlockJustRan("oracle") =>
        /\ hexp = prehexp
        /\ \A i \in Indices(n_qubits) :
              amp[i] = IF IsTarget(i) THEN -pre[i] ELSE pre[i]

C1_Witness ==
    /\ BlockJustRan("oracle")
    /\ target_state = <<"1", "1", "0">>
    /\ iterations >= 2
    /\ ip = marks[3].last + 1
    /\ pre[6] # 0
    /\ amp[6] = -pre[6]
    /\ amp[3] = pre[3]

\* C2: for 2 qubits the target has probability 1 after 1 iteration, so all
\* 1024 shots give the target string, and every outcome has probability 1/4
\* after 2 iterations.
C2_TwoQubitOscillation ==
    (n_qubits = 2 /\ Simulated) =>
        /\ iterations = 1 =>
              /\ \A i \in Indices(2) : IsTarget(i) => ProbEq(i, 1, 1)
              /\ pc = "done" => counts = [x \in {target_state} |-> Shots]
        /\ iterations = 2 => \A i \in Indices(2) : ProbEq(i, 1, 4)

C2_Witness ==
    /\ pc = "done"
    /\ n_qubits = 2
    /\ iterations = 1
    /\ target_state = <<"0", "1">>
    /\ counts[<<"0", "1">>] = Shots

\* C3 as stated: the gates of one apply_diffusion call take every amplitude
\* a[i] to 2*mean(a) - a[i].
C3_ReflectionAsStated ==
    BlockJustRan("diffusion") =>
        \A i \in Indices(n_qubits) :
            ScaledEq(Pow2(n_qubits) * amp[i], hexp,
                     2 * SumAmp(pre, n_qubits) - Pow2(n_qubits) * pre[i], prehexp)

\* C3 amended: the gates of one apply_diffusion call take every amplitude
\* a[i] to a[i] - 2*mean(a), the negative of the reflection about the mean.
C3_NegatedReflection ==
    BlockJustRan("diffusion") =>
        \A i \in Indices(n_qubits) :
            ScaledEq(Pow2(n_qubits) * amp[i], hexp,
                     Pow2(n_qubits) * pre[i] - 2 * SumAmp(pre, n_qubits), prehexp)

C3_Witness ==
    /\ BlockJustRan("diffusion")
    /\ n_qubits = 3
    /\ iterations >= 2
    /\ ip = marks[4].last + 1
    /\ SumAmp(pre, 3) # 0
    /\ \E i \in Indices(3) : pre[i] # 0 /\ amp[i] # 0 /\ amp[i] # pre[i]

\* C4 as stated: after a run the target's probability is strictly larger
\* than 1/2^n.
C4_AlwaysAmplified ==
    Simulated =>
        \A i \in Indices(n_qubits) : IsTarget(i) => ProbGt(i, 1, Pow2(n_qubits))

\* C4 amended: after a run the target's probability is strictly larger than
\* 1/2^n, except that it equals 1/4 for 2 qubits with 2 or 3 iterations and
\* is smaller than 1/8 for 3 qubits with 4 iterations.
C4_AmplifiedExceptOvershoot ==
    Simulated =>
        \A i \in Indices(n_qubits) : IsTarget(i) =>
            IF n_qubits = 2 /\ iterations \in {2, 3} THEN ProbEq(i, 1, 4)
            ELSE IF n_qubits = 3 /\ iterations = 4 THEN ProbLt(i, 1, 8)
            ELSE ProbGt(i, 1, Pow2(n_qubits))

C4_Witness ==
    /\ pc = "done"
    /\ n_qubits = 3
    /\ iterations = 4
    /\ target_state = <<"0", "1", "1">>
    /\ ProbLt(3, 1, 8)

\* C5: a call whose target string is not n characters long fails with
\* InvalidParameter before any gate is appended, and never completes.
C5_LengthMismatchRejected ==
    Len(target_state) # n_qubits =>
        /\ pc # "done"
        /\ pc = "raised" => (err = "InvalidParameter" /\ qc = <<>>)

\* a call with a short target that completes, having marked another state
C5_SilentRun ==
    /\ pc = "done"
    /\ n_qubits = 3
    /\ target_state = <<"0", "1">>
    /\ iterations = 1

\* C6: after every gate the simulator runs, the squared magnitudes of the
\* amplitudes sum to 1.
C6_NormPreserved ==
    pc \in {"simulate", "sample", "done"} =>
        SumSq(amp, n_qubits) = Pow2(hexp)

C6_Witness ==
    /\ pc = "simulate"
    /\ n_qubits = 3
    /\ iterations = 4
    /\ ip = Len(qc)
    /\ qc[ip - 1].op = "h"
    /\ hexp > 8
    /\ SumSq(amp, 3) = Pow2(hexp)

\* C7: for 2 qubits the target has probability 1 after 3 iterations and 1/4
\* after 4 iterations.
C7_PeriodTwo ==
    (n_qubits = 2 /\ Simulated) =>
        \A i \in Indices(2) : IsTarget(i) =>
            /\ iterations = 3 => ProbEq(i, 1, 1)
            /\ iterations = 4 => ProbEq(i, 1, 4)

\* C8: the gates of two apply_diffusion calls in a row, run on a vector the
\* simulator holds during a run, give that vector back.
C8_DiffusionInvolution ==
    pc = "diffused_twice" => (amp = pre /\ hexp = prehexp)

C8_Witness ==
    /\ pc = "diffused_twice"
    /\ n_qubits = 3
    /\ ip = 2 * Len(DiffusionGates(3)) + 1
    /\ hexp > 4
    /\ Cardinality({pre[i] : i \in Indices(3)}) > 2
    /\ amp = pre

\* C9: the counts a completed run returns map n-character strings of
\* '0'/'1' to positive integers that sum to 1024.
C9_CountsWellFormed ==
    pc = "done" =>
        /\ \A key \in DOMAIN counts :
              /\ Len(key) = n_qubits
              /\ \A j \in 1 .. Len(key) : key[j] \in {"0", "1"}
              /\ counts[key] > 0
        /\ SumCounts(counts, DOMAIN counts) = Shots

C9_Witness ==
    /\ pc = "done"
    /\ n_qubits = 3
    /\ Cardinality(DOMAIN counts) = 3
    /\ <<"1", "0", "0">> \in DOMAIN counts
    /\ counts[<<"1", "0", "0">>] > ShotBatch
    /\ SumCounts(counts, DOMAIN counts) = Shots

RECURSIVE Rounds(_)
Rounds(r) ==
    IF r = 0 THEN <<>>
    ELSE Rounds(r - 1) \o <<"OracleApplied", "DiffusedApplied">>

\* the stages of a complete run with r rounds
StagesOfRun(r) ==
    <<"Uninitialized", "Superposed">> \o Rounds(r) \o <<"Measured">>

IsPrefix(s, t) == Len(s) <= Len(t) /\ s = SubSeq(t, 1, Len(s))

\* C10: a run goes Uninitialized, Superposed, then `iterations` rounds of
\* OracleApplied, DiffusedApplied, then Measured, never out of this order,
\* and always gets to Measured and returns.
C10_StateMachine ==
    /\ [](IsPrefix(trace, StagesOfRun(iterations)))
    /\ <>(pc = "done" /\ trace = StagesOfRun(iterations))

C10_Witness ==
    /\ pc = "done"
    /\ iterations = 3
    /\ trace = <<"Uninitialized", "Superposed", "OracleApplied", "DiffusedApplied",
                 "OracleApplied", "DiffusedApplied", "OracleApplied",
                 "DiffusedApplied", "Measured">>

====
